---- MODULE Spec2Model ----
(***************************************************************************)
(* Model of app.py, the Streamlit "SQL AI Assistant": the session state,  *)
(* one action per script run (a widget event followed by its handler, or  *)
(* a queued st.rerun() followed by the "Logic for Processing Actions"     *)
(* block), and the pure helpers run_select_query, run_simulated_dml_query *)
(* and SimpleStrParser.parse computed character by character on strings.  *)
(***************************************************************************)
EXTENDS Integers, Sequences, FiniteSets, TLC

(***************************************************************************)
(* Bounds of the model.                                                    *)
(***************************************************************************)
\* the model follows a session until the assistant has appended this many
\* messages to the ConversationLog after its greeting
MaxReplies == 1
\* most DML-generator calls the model follows after one details submission
MaxGenCalls == 2
\* most parts concatenated into an input text of the pure-function checks
MaxParts == 2

(***************************************************************************)
(* Python values.                                                          *)
(***************************************************************************)
\* Python's None (also: a key absent from a dict read with .get)
None == "<None>"

\* Python truthiness of an optional string: neither None nor ""
Truthy(s) == s # None /\ s # ""

(***************************************************************************)
(* str methods, on the characters of the string.                           *)
(***************************************************************************)
StartsWith(s, p) == Len(s) >= Len(p) /\ SubSeq(s, 1, Len(p)) = p

EndsWith(s, p) == Len(s) >= Len(p) /\ SubSeq(s, Len(s) - Len(p) + 1, Len(s)) = p

\* Python's  p in s
Contains(s, p) ==
    \E i \in 1..(Len(s) - Len(p) + 1) : SubSeq(s, i, i + Len(p) - 1) = p

IsSpace(c) == c \in {" ", "\n", "\t"}

\* str.strip(): drop the leading and the trailing whitespace
Strip(s) ==
    LET keep == {i \in 1..Len(s) : ~IsSpace(SubSeq(s, i, i))}
    IN  IF keep = {} THEN ""
        ELSE LET lo == CHOOSE i \in keep : \A j \in keep : i <= j
                 hi == CHOOSE i \in keep : \A j \in keep : i >= j
             IN  SubSeq(s, lo, hi)

UpperChar(c) ==
    CASE c = "a" -> "A" [] c = "b" -> "B" [] c = "c" -> "C" [] c = "d" -> "D"
      [] c = "e" -> "E" [] c = "f" -> "F" [] c = "g" -> "G" [] c = "h" -> "H"
      [] c = "i" -> "I" [] c = "j" -> "J" [] c = "k" -> "K" [] c = "l" -> "L"
      [] c = "m" -> "M" [] c = "n" -> "N" [] c = "o" -> "O" [] c = "p" -> "P"
      [] c = "q" -> "Q" [] c = "r" -> "R" [] c = "s" -> "S" [] c = "t" -> "T"
      [] c = "u" -> "U" [] c = "v" -> "V" [] c = "w" -> "W" [] c = "x" -> "X"
      [] c = "y" -> "Y" [] c = "z" -> "Z" [] OTHER -> c

RECURSIVE Upper(_)
\* str.upper()
Upper(s) == IF s = "" THEN "" ELSE UpperChar(SubSeq(s, 1, 1)) \o Upper(Tail(s))

\* str.capitalize() of the two action verbs the program uses
Capitalize(s) ==
    IF s = "" THEN "" ELSE UpperChar(SubSeq(s, 1, 1)) \o Tail(s)

DropPrefix(s, n) == SubSeq(s, n + 1, Len(s))

DropSuffix(s, n) == SubSeq(s, 1, Len(s) - n)

(***************************************************************************)
(* 5. Custom output parser.  The Markdown fence is three backquotes in the *)
(* source; a backquote cannot be written inside a string here, so the      *)
(* fence is written with three tildes, a character no other text uses.    *)
(***************************************************************************)
Fence == "~~~"

SimpleStrParser_parse(text) ==
    LET c0 == Strip(text)
        c1 == IF StartsWith(c0, Fence \o "sql")
              THEN Strip(DropPrefix(c0, Len(Fence \o "sql"))) ELSE c0
        c2 == IF EndsWith(c1, Fence)
              THEN Strip(DropSuffix(c1, Len(Fence))) ELSE c1
        c3 == IF StartsWith(c2, Fence \o "json")
              THEN Strip(DropPrefix(c2, Len(Fence \o "json"))) ELSE c2
        c4 == IF EndsWith(c3, Fence)
              THEN Strip(DropSuffix(c3, Len(Fence))) ELSE c3
    IN  c4

(***************************************************************************)
(* 6. Helper functions.                                                    *)
(***************************************************************************)
SkipMsg ==
    "Skipping execution: Query is not a valid SELECT statement or is unanswerable."

NoDbMsg == "Error: Database connection not available for query execution."

\* a guard that forgets the "Error: SQL not generated" sentinel
select_refused_without_sentinel(sql_query) ==
    \/ ~Truthy(sql_query)
    \/ Contains(sql_query, "Cannot answer")
    \/ ~StartsWith(Upper(Strip(sql_query)), "SELECT")

\* a guard that forgets the SELECT prefix
select_refused_without_prefix(sql_query) ==
    \/ ~Truthy(sql_query)
    \/ Contains(sql_query, "Cannot answer")
    \/ Contains(sql_query, "Error: SQL not generated")

\* the guard of run_select_query: TRUE when the query is refused
select_refused(sql_query) ==
    \/ ~Truthy(sql_query)
    \/ Contains(sql_query, "Cannot answer")
    \/ Contains(sql_query, "Error: SQL not generated")
    \/ ~StartsWith(Upper(Strip(sql_query)), "SELECT")

\* a run_select_query whose error text leaves out the attempted query
run_select_query_without_query(sql_query, conn, outcome) ==
    IF conn
    THEN IF select_refused(sql_query)
         THEN [ret |-> SkipMsg, ran |-> None]
         ELSE IF outcome.raises
              THEN [ret |-> "Error executing SELECT query: " \o outcome.text,
                    ran |-> Strip(sql_query)]
              ELSE [ret |-> outcome.text, ran |-> Strip(sql_query)]
    ELSE [ret |-> NoDbMsg, ran |-> None]

\* run_select_query(sql_query) with `conn` the truth value of db and `outcome`
\* what db.run does when it is called.  ret is the returned text, ran the
\* statement handed to db.run (None when db.run is not called).
run_select_query(sql_query, conn, outcome) ==
    IF conn
    THEN IF select_refused(sql_query)
         THEN [ret |-> SkipMsg, ran |-> None]
         ELSE IF outcome.raises
              THEN [ret |-> "Error executing SELECT query: " \o outcome.text
                            \o "\nAttempted Query: " \o Strip(sql_query),
                    ran |-> Strip(sql_query)]
              ELSE [ret |-> outcome.text, ran |-> Strip(sql_query)]
    ELSE [ret |-> NoDbMsg, ran |-> None]

SimIssueMsg(action) ==
    "Error: Could not simulate " \o action \o " due to issues with the DML command."

SimNotDmlMsg(action) ==
    "Error: The provided command for " \o action \o " does not appear to be valid DML."

SimSuccessMsg(action) ==
    "Successfully (simulated) " \o action
        \o " data. No actual changes were made to the database in this demo."

\* a simulation whose messages name the statement in place of the action
run_simulated_dml_query_names_statement(dml_sql, action) ==
    IF \/ ~Truthy(dml_sql)
       \/ Contains(dml_sql, "Error generating DML")
       \/ Contains(dml_sql, "Command too vague")
    THEN SimIssueMsg(dml_sql)
    ELSE IF ~(\/ StartsWith(Upper(Strip(dml_sql)), "INSERT")
              \/ StartsWith(Upper(Strip(dml_sql)), "DELETE")
              \/ StartsWith(Upper(Strip(dml_sql)), "UPDATE"))
         THEN SimNotDmlMsg(dml_sql)
         ELSE SimSuccessMsg(dml_sql)

\* a simulation that forgets the "Command too vague" sentinel
run_simulated_dml_query_without_vague(dml_sql, action) ==
    IF ~Truthy(dml_sql) \/ Contains(dml_sql, "Error generating DML")
    THEN SimIssueMsg(action)
    ELSE IF ~(\/ StartsWith(Upper(Strip(dml_sql)), "INSERT")
              \/ StartsWith(Upper(Strip(dml_sql)), "DELETE")
              \/ StartsWith(Upper(Strip(dml_sql)), "UPDATE"))
         THEN SimNotDmlMsg(action)
         ELSE SimSuccessMsg(action)

\* a simulation that compares the prefix without .upper()
run_simulated_dml_query_case_sensitive(dml_sql, action) ==
    IF \/ ~Truthy(dml_sql)
       \/ Contains(dml_sql, "Error generating DML")
       \/ Contains(dml_sql, "Command too vague")
    THEN SimIssueMsg(action)
    ELSE IF ~(\/ StartsWith(Strip(dml_sql), "INSERT")
              \/ StartsWith(Strip(dml_sql), "DELETE")
              \/ StartsWith(Strip(dml_sql), "UPDATE"))
         THEN SimNotDmlMsg(action)
         ELSE SimSuccessMsg(action)

run_simulated_dml_query(dml_sql, action) ==
    IF \/ ~Truthy(dml_sql)
       \/ Contains(dml_sql, "Error generating DML")
       \/ Contains(dml_sql, "Command too vague")
    THEN SimIssueMsg(action)
    ELSE IF ~(\/ StartsWith(Upper(Strip(dml_sql)), "INSERT")
              \/ StartsWith(Upper(Strip(dml_sql)), "DELETE")
              \/ StartsWith(Upper(Strip(dml_sql)), "UPDATE"))
         THEN SimNotDmlMsg(action)
         ELSE SimSuccessMsg(action)

(***************************************************************************)
(* State.  The first eight variables are st.session_state; the others are  *)
(* the database handle, the script scheduling and a record of the calls    *)
(* made to the collaborators.                                              *)
(***************************************************************************)
VARIABLES
    current_action,            \* st.session_state.current_action
    dml_initial_description,   \* st.session_state.dml_initial_description
    dml_form_inputs,           \* st.session_state.dml_form_inputs (a dict)
    dml_text_details,          \* st.session_state.dml_text_details
    dml_guidance_message,      \* st.session_state.dml_guidance_message
    dml_input_method,          \* st.session_state.dml_input_method
    pending_dml_confirmation,  \* st.session_state.pending_dml_confirmation
    messages,                  \* st.session_state.messages
    db,                        \* truth value of the module-level db handle
    queued,                    \* the script run st.rerun() has queued, if any
    screen,                    \* the widgets the last complete rendering drew
    calls,                     \* collaborator calls made by the last script run
    genCalls,                  \* how many script runs in a row have called
                               \* dml_generation_chain
    dbRuns,                    \* every statement handed to db.run so far
    lastEvent,                 \* the widget event of the last script run
    fnArg,                     \* input text of the pure-function checks
    fnOut                      \* results of the pure functions on fnArg

sessionVars ==
    <<current_action, dml_initial_description, dml_form_inputs, dml_text_details,
      dml_guidance_message, dml_input_method, pending_dml_confirmation, messages>>

envVars == <<db, queued, screen, calls, genCalls, dbRuns, lastEvent>>

fnVars == <<fnArg, fnOut>>

vars == <<sessionVars, envVars, fnVars>>

(***************************************************************************)
(* Values of the session state.                                            *)
(***************************************************************************)
\* the empty dict {} of dml_form_inputs
EmptyDict == [f \in {} |-> ""]

\* dict.get(key, default)
DictGet(d, k, default) == IF k \in DOMAIN d THEN d[k] ELSE default

\* dml_guidance_message: json is "null" for None, "{}" for an empty object
\* and "object" for a non-empty one; a key the object lacks reads as None
\* (target_table) or as the empty list (suggested_fields), which is what
\* every .get() of the program makes of it.
NoGuidance == [json |-> "null", target_table |-> None, suggested_fields |-> <<>>]

EmptyObject == [json |-> "{}", target_table |-> None, suggested_fields |-> <<>>]

GuidanceObject(table, fields) ==
    [json |-> "object", target_table |-> table, suggested_fields |-> fields]

\* Python truthiness of dml_guidance_message
GuidanceTruthy(g) == g.json = "object"

\* guidance.get("target_table", "Unknown")
TargetTable(g) == IF g.target_table = None THEN "Unknown" ELSE g.target_table

\* pending_dml_confirmation: None, or {"action": ..., "sql": ...}
NoPending == [action |-> None, sql |-> None]

\* one entry of st.session_state.messages; a key the content dict lacks is None
Message(role, content, ai_response, generated_sql, sql_result, error) ==
    [role |-> role, content |-> content, ai_response |-> ai_response,
     generated_sql_display |-> generated_sql,
     sql_query_result_display |-> sql_result, error |-> error]

AssistantSays(text) == Message("assistant", None, text, None, None, None)

AssistantError(text) == Message("assistant", None, None, None, None, text)

UserSays(text) == Message("user", text, None, None, None, None)

Greeting ==
    AssistantSays("Hello! Use the quick action buttons or ask a question below.")

(***************************************************************************)
(* Which part of the page a script run draws.                              *)
(***************************************************************************)
InitialInputActions == {"add_data_initial_input", "delete_data_initial_input"}

InputMethodActions ==
    {"awaiting_dml_input_method_add", "awaiting_dml_input_method_delete"}

DetailsActions ==
    {"awaiting_structured_dml_details_add", "awaiting_structured_dml_details_delete"}

\* the if / elif chain of "UI for DML Stages"
StageOf(action, pending) ==
    IF action \in InitialInputActions THEN "initial"
    ELSE IF action \in InputMethodActions THEN "method"
    ELSE IF action \in DetailsActions THEN "details"
    ELSE IF pending # NoPending THEN "confirm"
    ELSE "none"

\* action_verb = "Add" if "add" in current_action else "Delete", lower-cased
VerbOf(action) == IF Contains(action, "add") THEN "add" ELSE "delete"

chat_input_disabled(action, pending) ==
    Truthy(action) /\ (Contains(action, "dml") \/ pending # NoPending)

\* a Fill Form button disabled on the target table alone
fill_form_disabled_by_table_only(g) == TargetTable(g) = "Unknown"

\* a Fill Form button disabled on the suggested fields alone
fill_form_disabled_by_fields_only(g) == g.suggested_fields = <<>>

\* disabled= of the Fill Form button
fill_form_disabled(g) == TargetTable(g) = "Unknown" \/ g.suggested_fields = <<>>

\* what a script run that reaches the chat input leaves on the page
Drawn(action, pending) ==
    [stage |-> StageOf(action, pending),
     chat |-> ~chat_input_disabled(action, pending)]

(***************************************************************************)
(* What the user types and what the collaborators answer.                  *)
(***************************************************************************)
Descriptions == {"", " ", "add a new artist"}

TextDetails == {"", " ", "Name=Test Band"}

FieldValues == {"", "Test"}

Questions == {"List all artists"}

\* replies of dml_guidance_chain once decoded
GuidanceReplies ==
    {EmptyObject,
     GuidanceObject("Unknown", <<>>),
     GuidanceObject("Unknown", <<"Name">>),
     GuidanceObject("Artist", <<>>),
     GuidanceObject("Artist", <<"Name", "ArtistId">>)}

\* texts the model returns to dml_generation_chain, before SimpleStrParser
GenerationReplies ==
    {"INSERT INTO Artist (Name) VALUES ('Test')",
     Fence \o "sql\ndelete from Artist where ArtistId = 5\n" \o Fence,
     "Error generating DML: Deletion criteria are too vague or unsafe.",
     Fence \o "sql\nError generating DML: Missing critical information.\n" \o Fence,
     "",
     "UPDATE Artist SET Name = 'Command too vague'",
     "SELECT * FROM Artist"}

IntentReply(type, sql, text) ==
    [response_type |-> type, generated_sql |-> sql, ai_response |-> text]

\* replies of initial_processing_chain once decoded
IntentReplies ==
    {IntentReply("SELECT_QUERY", " select Name from Artist ", None),
     IntentReply("SELECT_QUERY", "Cannot answer based on the schema.", None),
     IntentReply("SELECT_QUERY", "DELETE FROM Artist", None),
     IntentReply("SELECT_QUERY", "SELECT 'Error: SQL not generated'", None),
     IntentReply("SELECT_QUERY", None, None),
     IntentReply("CLARIFICATION_NEEDED_FOR_SELECT", None, "Please provide more details."),
     IntentReply("DML_INTENT_DETECTED", None, "Please use the dedicated buttons."),
     IntentReply("GENERAL_RESPONSE", None, "Hello!"),
     IntentReply("DATABASE_OVERVIEW_REQUEST", None, "Let me provide an overview."),
     IntentReply("SOMETHING_ELSE", None, "Hm."),
     IntentReply(None, None, None)}

\* what db.run does: return the rows as text, or raise
DbRunOutcomes ==
    {[raises |-> FALSE, text |-> "[(1, 'AC/DC'), (2, 'Accept')]"],
     [raises |-> FALSE, text |-> ""],
     [raises |-> TRUE, text |-> "Unknown column"]}

\* a chain either returns a text or raises; `fails` is "no", or names the
\* except clause of the processing block that catches what it raised
Returns(text) == [fails |-> "no", text |-> text]

\* what the call log holds for a call that raised
Raised == "<raised>"

Raises(clause) == [fails |-> clause, text |-> Raised]

\* how a chain ending in JsonOutputParser can fail, and any other chain
JsonChainFailures == {Raises("json.JSONDecodeError"), Raises("Exception")}

ChainFailures == {Raises("Exception")}

AnswerReplies == {Returns("There are 2 artists.")}

SummaryReplies == {Returns("A music store database.")}

\* the message each except clause appends
ErrorMessage(clause) ==
    IF clause = "json.JSONDecodeError"
    THEN AssistantError("AI response format error (not valid JSON): Expecting value. "
             \o "The LLM might have responded in plain text instead of JSON.")
    ELSE AssistantError("An unexpected error occurred: quota exceeded")

\* one call to a collaborator: which, with what, and what came back
Call(to, arg, got) == [to |-> to, arg |-> arg, got |-> got]

\* a get_schema that does not test the connection
get_schema_without_connection_test == <<Call("db.get_table_info", None, None)>>

\* get_schema(): db.get_table_info() is called when there is a connection
get_schema == IF db THEN <<Call("db.get_table_info", None, None)>> ELSE <<>>

(***************************************************************************)
(* Session State Init: the state of a new session.  The database may or    *)
(* may not have connected (get_database_connection returns None on error). *)
(***************************************************************************)
NoFn == [fn |-> "none", ret |-> None, ran |-> None]

SessionInit ==
    /\ current_action = None
    /\ dml_initial_description = ""
    /\ dml_form_inputs = EmptyDict
    /\ dml_text_details = ""
    /\ dml_guidance_message = NoGuidance
    /\ dml_input_method = None
    /\ pending_dml_confirmation = NoPending
    /\ messages = <<Greeting>>
    /\ db \in BOOLEAN
    /\ queued = "none"
    /\ screen = Drawn(None, NoPending)
    /\ calls = <<>>
    /\ genCalls = 0
    /\ dbRuns = {}
    /\ lastEvent = "start"

Init == SessionInit /\ fnArg = None /\ fnOut = NoFn

\* the assistant messages appended after the greeting
Replies == {i \in 2..Len(messages) : messages[i].role = "assistant"}

\* a widget event is delivered to a script run only after the run queued by
\* the previous handler's st.rerun() has been made; the model follows a
\* session until the assistant has replied MaxReplies times
AcceptsEvents == queued # "handler" /\ Cardinality(Replies) < MaxReplies

\* the widgets of a stage can fire when they are on the page and the run
\* that receives the event draws them again
StageEvent(stage) ==
    /\ AcceptsEvents
    /\ screen.stage = stage
    /\ StageOf(current_action, pending_dml_confirmation) = stage

\* a handler that ends in st.rerun(): the run stops there, the page is not
\* redrawn and another run is queued
HandlerRerunsAfter(event, made) ==
    /\ queued' = "handler"
    /\ calls' = made
    /\ genCalls' = 0
    /\ lastEvent' = event
    /\ UNCHANGED <<db, screen, dbRuns, fnVars>>

HandlerReruns(event) == HandlerRerunsAfter(event, <<>>)

\* a run whose handler did not call st.rerun(): it goes on to the end of the
\* script, where no branch of the processing block matches
RunsToEnd(event) ==
    /\ queued' = "none"
    /\ calls' = <<>>
    /\ genCalls' = 0
    /\ lastEvent' = event
    /\ screen' = Drawn(current_action', pending_dml_confirmation')
    /\ UNCHANGED <<db, dbRuns, fnVars>>

(***************************************************************************)
(* Quick Actions.                                                          *)
(***************************************************************************)
\* the body shared by the add_data_button and delete_data_button handlers
StartDml(verb) ==
    /\ AcceptsEvents
    /\ current_action' = verb \o "_data_initial_input"
    /\ dml_initial_description' = ""
    /\ dml_form_inputs' = EmptyDict
    /\ dml_text_details' = ""
    /\ dml_guidance_message' = NoGuidance
    /\ dml_input_method' = None
    /\ UNCHANGED <<pending_dml_confirmation, messages>>
    /\ HandlerReruns(verb \o "_data_button")

add_data_button == StartDml("add")

delete_data_button == StartDml("delete")

summarize_db_button ==
    /\ AcceptsEvents
    /\ current_action' = "summarize_db"
    /\ UNCHANGED <<dml_initial_description, dml_form_inputs, dml_text_details,
                   dml_guidance_message, dml_input_method,
                   pending_dml_confirmation, messages>>
    /\ HandlerReruns("summarize_db_button")

(***************************************************************************)
(* Stage 1: Get initial DML description.                                   *)
(***************************************************************************)
\* the user edits the text area; the run assigns its value
TypeDescription ==
    /\ StageEvent("initial")
    /\ \E text \in Descriptions \ {dml_initial_description} :
           dml_initial_description' = text
    /\ UNCHANGED <<current_action, dml_form_inputs, dml_text_details,
                   dml_guidance_message, dml_input_method,
                   pending_dml_confirmation, messages>>
    /\ RunsToEnd("type_description")

\* a Get Guidance button that does not look at the description
GetGuidance_unvalidated ==
    /\ StageEvent("initial")
    /\ UNCHANGED <<dml_initial_description, dml_form_inputs, dml_text_details,
                   dml_guidance_message, dml_input_method,
                   pending_dml_confirmation, messages>>
    /\ current_action' = "process_initial_dml_description_" \o VerbOf(current_action)
    /\ HandlerReruns("get_guidance")

GetGuidance ==
    /\ StageEvent("initial")
    /\ UNCHANGED <<dml_initial_description, dml_form_inputs, dml_text_details,
                   dml_guidance_message, dml_input_method,
                   pending_dml_confirmation, messages>>
    /\ IF Strip(dml_initial_description) # ""
       THEN /\ current_action' =
                   "process_initial_dml_description_" \o VerbOf(current_action)
            /\ HandlerReruns("get_guidance")
       ELSE /\ UNCHANGED current_action
            /\ RunsToEnd("get_guidance_rejected")

CancelInitial ==
    /\ StageEvent("initial")
    /\ current_action' = None
    /\ UNCHANGED <<dml_initial_description, dml_form_inputs, dml_text_details,
                   dml_guidance_message, dml_input_method,
                   pending_dml_confirmation, messages>>
    /\ HandlerReruns("cancel_initial")

(***************************************************************************)
(* Stage 2: Display guidance and offer input methods.  The buttons are     *)
(* drawn only when the guidance is truthy.                                 *)
(***************************************************************************)
\* a method choice that does not record the method
ChooseMethod_without_method(method) ==
    /\ StageEvent("method")
    /\ GuidanceTruthy(dml_guidance_message)
    /\ current_action' = "awaiting_structured_dml_details_" \o VerbOf(current_action)
    /\ UNCHANGED <<dml_initial_description, dml_form_inputs, dml_text_details,
                   dml_guidance_message, dml_input_method,
                   pending_dml_confirmation, messages>>
    /\ HandlerReruns("choose_" \o method)

ChooseMethod(method) ==
    /\ StageEvent("method")
    /\ GuidanceTruthy(dml_guidance_message)
    /\ dml_input_method' = method
    /\ current_action' = "awaiting_structured_dml_details_" \o VerbOf(current_action)
    /\ UNCHANGED <<dml_initial_description, dml_form_inputs, dml_text_details,
                   dml_guidance_message, pending_dml_confirmation, messages>>
    /\ HandlerReruns("choose_" \o method)

FillForm ==
    /\ ~fill_form_disabled(dml_guidance_message)
    /\ ChooseMethod("form")

DescribeInText == ChooseMethod("text")

CancelOperation ==
    /\ StageEvent("method")
    /\ GuidanceTruthy(dml_guidance_message)
    /\ current_action' = None
    /\ dml_guidance_message' = NoGuidance
    /\ UNCHANGED <<dml_initial_description, dml_form_inputs, dml_text_details,
                   dml_input_method, pending_dml_confirmation, messages>>
    /\ HandlerReruns("cancel_operation")

(***************************************************************************)
(* Stage 2b: Input details (Form or Text).  Nothing is drawn when the      *)
(* guidance is falsy (st.stop()).                                          *)
(***************************************************************************)
FieldsOf(g) == {g.suggested_fields[i] : i \in 1..Len(g.suggested_fields)}

\* the loop over suggested_fields inside st.form: each field's entry becomes
\* the value of its text input, `typed` where the user submitted one and the
\* entry's previous value (or "") otherwise
FormInputsDrawn(inputs, g, method, typed) ==
    IF method = "form" /\ g.suggested_fields # <<>>
    THEN [k \in (DOMAIN inputs) \cup FieldsOf(g) |->
             IF k \in DOMAIN typed THEN typed[k] ELSE DictGet(inputs, k, "")]
    ELSE inputs

\* a form submission that tests the dict of inputs, not its values
SubmitForm_any_key ==
    /\ StageEvent("details")
    /\ GuidanceTruthy(dml_guidance_message)
    /\ dml_input_method = "form"
    /\ dml_guidance_message.suggested_fields # <<>>
    /\ \E typed \in [FieldsOf(dml_guidance_message) -> FieldValues] :
           /\ dml_form_inputs' = FormInputsDrawn(dml_form_inputs,
                                     dml_guidance_message, dml_input_method, typed)
           /\ UNCHANGED <<dml_initial_description, dml_text_details,
                          dml_guidance_message, dml_input_method,
                          pending_dml_confirmation, messages>>
           /\ IF DOMAIN dml_form_inputs' # {}
              THEN /\ current_action' =
                          "process_structured_dml_" \o VerbOf(current_action)
                   /\ HandlerReruns("submit_form")
              ELSE /\ UNCHANGED current_action
                   /\ RunsToEnd("submit_form_rejected")

\* form_submit_button: the values of all the form's inputs arrive together
SubmitForm ==
    /\ StageEvent("details")
    /\ GuidanceTruthy(dml_guidance_message)
    /\ dml_input_method = "form"
    /\ dml_guidance_message.suggested_fields # <<>>
    /\ \E typed \in [FieldsOf(dml_guidance_message) -> FieldValues] :
           /\ dml_form_inputs' = FormInputsDrawn(dml_form_inputs,
                                     dml_guidance_message, dml_input_method, typed)
           /\ UNCHANGED <<dml_initial_description, dml_text_details,
                          dml_guidance_message, dml_input_method,
                          pending_dml_confirmation, messages>>
           /\ IF \E f \in FieldsOf(dml_guidance_message) :
                     Truthy(DictGet(dml_form_inputs', f, None))
              THEN /\ current_action' =
                          "process_structured_dml_" \o VerbOf(current_action)
                   /\ HandlerReruns("submit_form")
              ELSE /\ UNCHANGED current_action
                   /\ RunsToEnd("submit_form_rejected")

\* the user edits the details text area; the run assigns its value
TypeTextDetails ==
    /\ StageEvent("details")
    /\ GuidanceTruthy(dml_guidance_message)
    /\ dml_input_method = "text"
    /\ \E text \in TextDetails \ {dml_text_details} : dml_text_details' = text
    /\ UNCHANGED <<current_action, dml_initial_description, dml_form_inputs,
                   dml_guidance_message, dml_input_method,
                   pending_dml_confirmation, messages>>
    /\ RunsToEnd("type_text_details")

\* a Generate button that takes any text, blank included
GenerateFromText_unvalidated ==
    /\ StageEvent("details")
    /\ GuidanceTruthy(dml_guidance_message)
    /\ dml_input_method = "text"
    /\ UNCHANGED <<dml_initial_description, dml_form_inputs, dml_text_details,
                   dml_guidance_message, dml_input_method,
                   pending_dml_confirmation, messages>>
    /\ current_action' = "process_structured_dml_" \o VerbOf(current_action)
    /\ HandlerReruns("generate_from_text")

GenerateFromText ==
    /\ StageEvent("details")
    /\ GuidanceTruthy(dml_guidance_message)
    /\ dml_input_method = "text"
    /\ UNCHANGED <<dml_initial_description, dml_form_inputs, dml_text_details,
                   dml_guidance_message, dml_input_method,
                   pending_dml_confirmation, messages>>
    /\ IF Strip(dml_text_details) # ""
       THEN /\ current_action' =
                   "process_structured_dml_" \o VerbOf(current_action)
            /\ HandlerReruns("generate_from_text")
       ELSE /\ UNCHANGED current_action
            /\ RunsToEnd("generate_from_text_rejected")

\* a Go Back that discards the guidance with the details
GoBack_discards_guidance ==
    /\ StageEvent("details")
    /\ GuidanceTruthy(dml_guidance_message)
    /\ current_action' = "awaiting_dml_input_method_" \o VerbOf(current_action)
    /\ dml_form_inputs' = EmptyDict
    /\ dml_text_details' = ""
    /\ dml_guidance_message' = NoGuidance
    /\ UNCHANGED <<dml_initial_description, dml_input_method,
                   pending_dml_confirmation, messages>>
    /\ HandlerReruns("go_back")

\* a Go Back that keeps what was typed
GoBack_keeps_details ==
    /\ StageEvent("details")
    /\ GuidanceTruthy(dml_guidance_message)
    /\ current_action' = "awaiting_dml_input_method_" \o VerbOf(current_action)
    /\ UNCHANGED <<dml_initial_description, dml_form_inputs, dml_text_details,
                   dml_guidance_message, dml_input_method,
                   pending_dml_confirmation, messages>>
    /\ HandlerReruns("go_back")

\* "Go Back / Cancel Details Input"
GoBack ==
    /\ StageEvent("details")
    /\ GuidanceTruthy(dml_guidance_message)
    /\ current_action' = "awaiting_dml_input_method_" \o VerbOf(current_action)
    /\ dml_form_inputs' = EmptyDict
    /\ dml_text_details' = ""
    /\ UNCHANGED <<dml_initial_description, dml_guidance_message,
                   dml_input_method, pending_dml_confirmation, messages>>
    /\ HandlerReruns("go_back")

(***************************************************************************)
(* Stage 3: DML Confirmation.                                              *)
(***************************************************************************)
\* "Proceed with ... (Simulated)"
Proceed ==
    /\ StageEvent("confirm")
    /\ LET action_verb == pending_dml_confirmation.action
           dml_sql == pending_dml_confirmation.sql
           simulated_result == run_simulated_dml_query(dml_sql, action_verb)
       IN  /\ messages' = Append(messages, AssistantSays(simulated_result))
           /\ HandlerRerunsAfter("proceed",
                  <<Call("run_simulated_dml_query", dml_sql, simulated_result)>>)
    /\ pending_dml_confirmation' = NoPending
    /\ current_action' = None
    /\ UNCHANGED <<dml_initial_description, dml_form_inputs, dml_text_details,
                   dml_guidance_message, dml_input_method>>

\* "Cancel Operation" of the confirmation stage
CancelConfirmation ==
    /\ StageEvent("confirm")
    /\ messages' = Append(messages,
           AssistantSays(Capitalize(pending_dml_confirmation.action)
                         \o " operation cancelled."))
    /\ pending_dml_confirmation' = NoPending
    /\ current_action' = None
    /\ UNCHANGED <<dml_initial_description, dml_form_inputs, dml_text_details,
                   dml_guidance_message, dml_input_method>>
    /\ HandlerReruns("cancel_confirmation")

(***************************************************************************)
(* Chat Input.                                                             *)
(***************************************************************************)
\* a chat input that starts the log over with the user's message
main_chat_input_restarts_log ==
    /\ AcceptsEvents
    /\ screen.chat
    /\ ~chat_input_disabled(current_action, pending_dml_confirmation)
    /\ \E user_input \in Questions : messages' = <<UserSays(user_input)>>
    /\ current_action' = "process_chat_input"
    /\ UNCHANGED <<dml_initial_description, dml_form_inputs, dml_text_details,
                   dml_guidance_message, dml_input_method,
                   pending_dml_confirmation>>
    /\ HandlerReruns("main_chat_input")

main_chat_input ==
    /\ AcceptsEvents
    /\ screen.chat
    /\ ~chat_input_disabled(current_action, pending_dml_confirmation)
    /\ \E user_input \in Questions :
           messages' = Append(messages, UserSays(user_input))
    /\ current_action' = "process_chat_input"
    /\ UNCHANGED <<dml_initial_description, dml_form_inputs, dml_text_details,
                   dml_guidance_message, dml_input_method,
                   pending_dml_confirmation>>
    /\ HandlerReruns("main_chat_input")

(***************************************************************************)
(* A script run without a widget event, made because st.rerun() queued it: *)
(* the page is drawn for the current state, then the "Logic for Processing *)
(* Actions" block runs.                                                    *)
(***************************************************************************)
IsProcessInitial(action) == StartsWith(action, "process_initial_dml_description_")

IsProcessStructured(action) == StartsWith(action, "process_structured_dml_")

\* a processing branch that ends in st.rerun()
ProcessingReruns(event, made) ==
    /\ queued' = "processing"
    /\ calls' = made
    /\ lastEvent' = event
    /\ screen' = Drawn(current_action, pending_dml_confirmation)
    /\ UNCHANGED <<db, fnVars>>

\* no branch of the processing block matches: the run only draws the page
Render ==
    /\ queued # "none"
    /\ current_action \notin {"process_chat_input", "summarize_db"}
    /\ ~IsProcessInitial(current_action)
    /\ ~IsProcessStructured(current_action)
    /\ LET stage == StageOf(current_action, pending_dml_confirmation)
           lost  == stage = "method" /\ ~GuidanceTruthy(dml_guidance_message)
           stops == stage = "details" /\ ~GuidanceTruthy(dml_guidance_message)
       IN  \* Stage 2 without guidance: "Guidance message not found"
           /\ current_action' = IF lost THEN None ELSE current_action
           /\ dml_form_inputs' =
                  IF stage = "details" /\ ~stops
                  THEN FormInputsDrawn(dml_form_inputs, dml_guidance_message,
                                       dml_input_method, EmptyDict)
                  ELSE dml_form_inputs
           \* Stage 2b without guidance: st.stop() before the chat input
           /\ screen' = IF stops THEN [stage |-> "none", chat |-> FALSE]
                        ELSE IF lost
                        THEN [stage |-> "none",
                              chat |-> ~chat_input_disabled(None,
                                           pending_dml_confirmation)]
                        ELSE Drawn(current_action, pending_dml_confirmation)
    /\ queued' = "none"
    /\ calls' = <<>>
    /\ genCalls' = 0
    /\ lastEvent' = "render"
    /\ UNCHANGED <<dml_initial_description, dml_text_details,
                   dml_guidance_message, dml_input_method,
                   pending_dml_confirmation, messages, db, dbRuns, fnVars>>

\* a SELECT branch whose message leaves the raw result out
SelectTurn_without_raw_result(generated_sql, outcome, answer) ==
    LET sql_response_raw == run_select_query(generated_sql, db, outcome)
        ran == IF sql_response_raw.ran = None THEN <<>>
               ELSE <<Call("db.run", sql_response_raw.ran,
                           IF outcome.raises THEN Raised \o outcome.text
                           ELSE outcome.text)>>
    IN  [msg |-> IF answer.fails # "no" THEN ErrorMessage(answer.fails)
                 ELSE Message("assistant", None, answer.text, generated_sql,
                              None, None),
         made |-> <<Call("run_select_query", generated_sql, sql_response_raw.ret)>>
                  \o ran
                  \o <<Call("select_answer_chain", sql_response_raw.ret, answer.text)>>,
         ran |-> sql_response_raw.ran]

\* the SELECT_QUERY branch when the query is run: the executor, then the
\* answer chain; gives the message to append, the calls made (a db.run that
\* raised is logged as Raised followed by the exception's message), the
\* statement handed to db.run
SelectTurn(generated_sql, outcome, answer) ==
    LET sql_response_raw == run_select_query(generated_sql, db, outcome)
        ran == IF sql_response_raw.ran = None THEN <<>>
               ELSE <<Call("db.run", sql_response_raw.ran,
                           IF outcome.raises THEN Raised \o outcome.text
                           ELSE outcome.text)>>
    IN  [msg |-> IF answer.fails # "no" THEN ErrorMessage(answer.fails)
                 ELSE Message("assistant", None, answer.text, generated_sql,
                              sql_response_raw.ret, None),
         made |-> <<Call("run_select_query", generated_sql, sql_response_raw.ret)>>
                  \o ran
                  \o <<Call("select_answer_chain", sql_response_raw.ret, answer.text)>>,
         ran |-> sql_response_raw.ran]

\* the DATABASE_OVERVIEW_REQUEST branch
OverviewTurn(summary) ==
    [msg |-> IF summary.fails # "no" THEN ErrorMessage(summary.fails)
             ELSE AssistantSays("**Database Overview:**\n\n" \o summary.text),
     made |-> get_schema \o <<Call("db_summary_chain", None, summary.text)>>,
     ran |-> None]

\* a branch that calls no collaborator
PlainTurn(msg) == [msg |-> msg, made |-> <<>>, ran |-> None]

\* a routing that runs every non-empty generated_sql
ChatTurns_without_sentinel(r) ==
    IF r.response_type = "SELECT_QUERY"
    THEN IF Truthy(r.generated_sql)
         THEN {SelectTurn(r.generated_sql, o, a) :
                  o \in DbRunOutcomes, a \in AnswerReplies \cup ChainFailures}
         ELSE {PlainTurn(Message("assistant", None, r.generated_sql,
                                 r.generated_sql, None, None))}
    ELSE IF r.response_type \in {"CLARIFICATION_NEEDED_FOR_SELECT",
                                 "DML_INTENT_DETECTED", "GENERAL_RESPONSE"}
    THEN {PlainTurn(AssistantSays(r.ai_response))}
    ELSE IF r.response_type = "DATABASE_OVERVIEW_REQUEST"
    THEN {OverviewTurn(s) : s \in SummaryReplies \cup ChainFailures}
    ELSE {PlainTurn(AssistantError("Unexpected AI response type."))}

\* a routing that forgets the DML_INTENT_DETECTED tag
ChatTurns_without_dml_intent(r) ==
    IF r.response_type = "SELECT_QUERY"
    THEN IF Truthy(r.generated_sql) /\ ~Contains(r.generated_sql, "Cannot answer")
         THEN {SelectTurn(r.generated_sql, o, a) :
                  o \in DbRunOutcomes, a \in AnswerReplies \cup ChainFailures}
         ELSE {PlainTurn(Message("assistant", None, r.generated_sql,
                                 r.generated_sql, None, None))}
    ELSE IF r.response_type \in {"CLARIFICATION_NEEDED_FOR_SELECT", "GENERAL_RESPONSE"}
    THEN {PlainTurn(AssistantSays(r.ai_response))}
    ELSE IF r.response_type = "DATABASE_OVERVIEW_REQUEST"
    THEN {OverviewTurn(s) : s \in SummaryReplies \cup ChainFailures}
    ELSE {PlainTurn(AssistantError("Unexpected AI response type."))}

\* the routing on response_type: the ways the turn can go for one reply
ChatTurns(r) ==
    IF r.response_type = "SELECT_QUERY"
    THEN IF Truthy(r.generated_sql) /\ ~Contains(r.generated_sql, "Cannot answer")
         THEN {SelectTurn(r.generated_sql, o, a) :
                  o \in DbRunOutcomes, a \in AnswerReplies \cup ChainFailures}
         ELSE {PlainTurn(Message("assistant", None, r.generated_sql,
                                 r.generated_sql, None, None))}
    ELSE IF r.response_type \in {"CLARIFICATION_NEEDED_FOR_SELECT",
                                 "DML_INTENT_DETECTED", "GENERAL_RESPONSE"}
    THEN {PlainTurn(AssistantSays(r.ai_response))}
    ELSE IF r.response_type = "DATABASE_OVERVIEW_REQUEST"
    THEN {OverviewTurn(s) : s \in SummaryReplies \cup ChainFailures}
    ELSE {PlainTurn(AssistantError("Unexpected AI response type."))}

\* action_to_process == "process_chat_input"
process_chat_input ==
    /\ queued # "none"
    /\ current_action = "process_chat_input"
    /\ LET user_query == messages[Len(messages)].content
           asked(got) == get_schema
                         \o <<Call("initial_processing_chain", user_query, got)>>
       IN  \/ \E f \in JsonChainFailures :
                /\ messages' = Append(messages, ErrorMessage(f.fails))
                /\ UNCHANGED dbRuns
                /\ ProcessingReruns("process_chat_input", asked(f.text))
           \/ \E r \in IntentReplies : \E turn \in ChatTurns(r) :
                /\ messages' = Append(messages, turn.msg)
                /\ dbRuns' = IF turn.ran = None THEN dbRuns
                             ELSE dbRuns \cup {[sql |-> turn.ran,
                                                by |-> current_action]}
                /\ ProcessingReruns("process_chat_input",
                                    asked(r.response_type) \o turn.made)
    /\ current_action' = None
    /\ genCalls' = 0
    /\ UNCHANGED <<dml_initial_description, dml_form_inputs, dml_text_details,
                   dml_guidance_message, dml_input_method,
                   pending_dml_confirmation>>

\* action_to_process.startswith("process_initial_dml_description_")
process_initial_dml_description ==
    /\ queued # "none"
    /\ IsProcessInitial(current_action)
    /\ LET action_verb == VerbOf(current_action)
           asked(got) == get_schema
                         \o <<Call("dml_guidance_chain", dml_initial_description, got)>>
       IN  \/ \E f \in JsonChainFailures :
                /\ messages' = Append(messages, ErrorMessage(f.fails))
                /\ current_action' = None
                /\ UNCHANGED dml_guidance_message
                /\ ProcessingReruns("process_initial_dml_description", asked(f.text))
           \/ \E guidance_json \in GuidanceReplies :
                /\ dml_guidance_message' = guidance_json
                /\ current_action' = "awaiting_dml_input_method_" \o action_verb
                /\ UNCHANGED messages
                /\ ProcessingReruns("process_initial_dml_description",
                                    asked(guidance_json.json))
    /\ genCalls' = 0
    /\ UNCHANGED <<dml_initial_description, dml_form_inputs, dml_text_details,
                   dml_input_method, pending_dml_confirmation, dbRuns>>

RECURSIVE EscapeQuotes(_)
\* str(v).replace("'", "''")
EscapeQuotes(v) ==
    IF v = "" THEN ""
    ELSE (IF SubSeq(v, 1, 1) = "'" THEN "''" ELSE SubSeq(v, 1, 1))
         \o EscapeQuotes(Tail(v))

RECURSIVE JoinPairs(_, _)
\* ", ".join(f"{k}='{escaped v}'" ...) over the keys in `order` with a truthy
\* value; a dict keeps its keys in the order they were first assigned, which
\* for dml_form_inputs is the order of suggested_fields
JoinPairs(inputs, order) ==
    IF order = <<>> THEN ""
    ELSE LET k == Head(order)
             rest == JoinPairs(inputs, Tail(order))
         IN  IF k \in DOMAIN inputs /\ Truthy(inputs[k])
             THEN k \o "='" \o EscapeQuotes(inputs[k]) \o "'"
                  \o (IF rest = "" THEN "" ELSE ", " \o rest)
             ELSE rest

\* user_structured_details_str
StructuredDetails ==
    IF dml_input_method = "form"
    THEN JoinPairs(dml_form_inputs, dml_guidance_message.suggested_fields)
    ELSE dml_text_details

\* a refusal test by equality instead of by prefix
IsRefusal_by_equality(generated_dml_sql) == generated_dml_sql = "Error generating DML:"

\* generated_dml_sql.startswith("Error generating DML:")
IsRefusal(generated_dml_sql) == StartsWith(generated_dml_sql, "Error generating DML:")

\* action_to_process.startswith("process_structured_dml_")
process_structured_dml ==
    /\ queued # "none"
    /\ IsProcessStructured(current_action)
    /\ genCalls < MaxGenCalls
    /\ UNCHANGED <<dml_initial_description, dml_form_inputs, dml_text_details,
                   dml_guidance_message, dml_input_method, dbRuns>>
    /\ IF dml_input_method \notin {"form", "text"}
       THEN \* "DML Input method not determined": st.stop()
            /\ queued' = "none"
            /\ calls' = <<>>
            /\ lastEvent' = "process_structured_dml"
            /\ screen' = Drawn(current_action, pending_dml_confirmation)
            /\ UNCHANGED <<current_action, pending_dml_confirmation, messages,
                           genCalls, db, fnVars>>
       ELSE LET action_verb == VerbOf(current_action)
                asked(got) == get_schema
                              \o <<Call("dml_generation_chain", StructuredDetails, got)>>
            IN  /\ genCalls' = genCalls + 1
                /\ \/ \E f \in ChainFailures :
                        /\ messages' = Append(messages, ErrorMessage(f.fails))
                        /\ current_action' = None
                        /\ UNCHANGED pending_dml_confirmation
                        /\ ProcessingReruns("process_structured_dml", asked(f.text))
                   \/ \E reply \in GenerationReplies :
                        LET generated_dml_sql == SimpleStrParser_parse(reply)
                        IN  /\ IF IsRefusal(generated_dml_sql)
                               THEN /\ messages' = Append(messages,
                                           AssistantSays(generated_dml_sql))
                                    /\ current_action' = None
                                    /\ UNCHANGED pending_dml_confirmation
                               ELSE /\ pending_dml_confirmation' =
                                           [action |-> action_verb,
                                            sql |-> generated_dml_sql]
                                    /\ UNCHANGED <<current_action, messages>>
                            /\ ProcessingReruns("process_structured_dml",
                                                asked(generated_dml_sql))

\* action_to_process == "summarize_db"
summarize_db ==
    /\ queued # "none"
    /\ current_action = "summarize_db"
    /\ \E summary \in SummaryReplies \cup ChainFailures :
           /\ messages' = Append(messages,
                  IF summary.fails # "no" THEN ErrorMessage(summary.fails)
                  ELSE AssistantSays("**Database Summary:**\n\n" \o summary.text))
           /\ ProcessingReruns("summarize_db",
                  get_schema \o <<Call("db_summary_chain", None, summary.text)>>)
    /\ current_action' = None
    /\ genCalls' = 0
    /\ UNCHANGED <<dml_initial_description, dml_form_inputs, dml_text_details,
                   dml_guidance_message, dml_input_method,
                   pending_dml_confirmation, dbRuns>>

(***************************************************************************)
(* The session: every script run is one step.                              *)
(***************************************************************************)
Next ==
    \/ add_data_button
    \/ delete_data_button
    \/ summarize_db_button
    \/ TypeDescription
    \/ GetGuidance
    \/ CancelInitial
    \/ FillForm
    \/ DescribeInText
    \/ CancelOperation
    \/ SubmitForm
    \/ TypeTextDetails
    \/ GenerateFromText
    \/ GoBack
    \/ Proceed
    \/ CancelConfirmation
    \/ main_chat_input
    \/ Render
    \/ process_chat_input
    \/ process_initial_dml_description
    \/ process_structured_dml
    \/ summarize_db

Spec == Init /\ [][Next]_vars

(***************************************************************************)
(* The helper functions on their own: one call of run_select_query or of   *)
(* run_simulated_dml_query on a text put together from MaxParts parts.     *)
(***************************************************************************)
TextParts ==
    {"", " ", "\n", "x", "SELECT", "select ", "INSERT", "insert ", "Delete",
     "UPDATE", "Cannot answer", "Error: SQL not generated",
     "Error generating DML", "Command too vague"}

RECURSIVE TextsOf(_)
TextsOf(n) ==
    IF n = 0 THEN {""} ELSE {p \o t : p \in TextParts, t \in TextsOf(n - 1)}

FnInit == SessionInit /\ fnArg \in TextsOf(MaxParts) /\ fnOut = NoFn

apply_run_select_query ==
    /\ fnOut = NoFn
    /\ \E outcome \in DbRunOutcomes :
           LET r == run_select_query(fnArg, db, outcome)
           IN  fnOut' = [fn |-> "run_select_query", ret |-> r.ret, ran |-> r.ran]
    /\ UNCHANGED <<fnArg, sessionVars, envVars>>

apply_run_simulated_dml_query ==
    /\ fnOut = NoFn
    /\ \E action \in {"add", "delete"} :
           fnOut' = [fn |-> "run_simulated_dml_query",
                     ret |-> run_simulated_dml_query(fnArg, action),
                     ran |-> action]
    /\ UNCHANGED <<fnArg, sessionVars, envVars>>

FnNext == apply_run_select_query \/ apply_run_simulated_dml_query

SpecFn == FnInit /\ [][FnNext]_vars

(***************************************************************************)
(* The output parser on its own: one call of SimpleStrParser.parse on a    *)
(* model output, fenced or not, whose content is put together from         *)
(* MaxParts + 1 parts.                                                     *)
(***************************************************************************)
ContentParts ==
    {"", " ", "\n", "SELECT 1", "{}", "Error generating DML: vague",
     Fence, Fence \o "sql", Fence \o "json"}

RECURSIVE ContentsOf(_)
ContentsOf(n) ==
    IF n = 0 THEN {""} ELSE {p \o t : p \in ContentParts, t \in ContentsOf(n - 1)}

\* the opening fences SimpleStrParser knows
Openings == {Fence \o "sql", Fence \o "json"}

\* a content wrapped in a fence, with or without white space around the fence
Fenced(opening, content) == opening \o content \o Fence

ModelOutputs ==
    ContentsOf(MaxParts + 1)
    \cup {before \o Fenced(o, x) \o after :
             before \in {"", " "}, o \in Openings,
             x \in ContentsOf(MaxParts + 1), after \in {"", "\n"}}

ParseInit == SessionInit /\ fnArg \in ModelOutputs /\ fnOut = NoFn

apply_SimpleStrParser_parse ==
    /\ fnOut = NoFn
    /\ fnOut' = [fn |-> "SimpleStrParser.parse",
                 ret |-> SimpleStrParser_parse(fnArg), ran |-> None]
    /\ UNCHANGED <<fnArg, sessionVars, envVars>>

ParseNext == apply_SimpleStrParser_parse

SpecParse == ParseInit /\ [][ParseNext]_vars

(***************************************************************************)
(* Properties.                                                             *)
(***************************************************************************)
\* what QueryExecutor may hand to the database
DbRunAllowed(sql) ==
    /\ Truthy(sql)
    /\ ~Contains(sql, "Cannot answer")
    /\ ~Contains(sql, "Error: SQL not generated")
    /\ StartsWith(Upper(Strip(sql)), "SELECT")

DbRunCalls == {i \in 1..Len(calls) : calls[i].to = "db.run"}

\* C1: db.run is invoked only by the script run that processes a chat input,
\* and only with a non-empty statement that holds neither sentinel and starts
\* with SELECT (any case, after trimming); no other run, the confirmed
\* simulated execution included, invokes it.
C1_DbRunOnlyGuardedSelect ==
    /\ \A r \in dbRuns : r.by = "process_chat_input" /\ DbRunAllowed(r.sql)
    /\ \A i \in DbRunCalls :
          /\ lastEvent = "process_chat_input"
          /\ DbRunAllowed(calls[i].arg)
          /\ [sql |-> calls[i].arg, by |-> "process_chat_input"] \in dbRuns
    /\ lastEvent # "process_chat_input" => DbRunCalls = {}

\* a chat turn has run the generated SELECT against the database
C1_Witness ==
    /\ lastEvent = "process_chat_input"
    /\ \E i \in DbRunCalls : calls[i].arg = "select Name from Artist"
    /\ dbRuns # {}

\* C2: one details submission makes exactly one DML-generator call: the
\* generator is never called by two script runs in a row.
C2_OneGenerationPerSubmission == genCalls <= 1

\* C3: right after the Add Data or Delete Data button the DmlSession is
\* empty, pendingConfirmation included.
C3_FreshSessionOnStart ==
    lastEvent \in {"add_data_button", "delete_data_button"} =>
        /\ dml_initial_description = ""
        /\ dml_guidance_message = NoGuidance
        /\ dml_input_method = None
        /\ dml_form_inputs = EmptyDict
        /\ dml_text_details = ""
        /\ pending_dml_confirmation = NoPending

\* the text starts with INSERT, DELETE or UPDATE, in any case, after trimming
StartsDml(sql) ==
    \E word \in {"INSERT", "DELETE", "UPDATE"} : StartsWith(Upper(Strip(sql)), word)

PendingSet == pending_dml_confirmation # NoPending

\* C4 as claimed: a stored pending confirmation holds an INSERT, UPDATE or
\* DELETE statement.
C4_PendingIsDml == PendingSet => StartsDml(pending_dml_confirmation.sql)

\* C4 as amended: a stored pending confirmation holds the verb of its cycle
\* and a generator output that does not start with "Error generating DML:"
\* (which may be empty, prose or a SELECT).
C4_PendingIsNotRefusal ==
    PendingSet =>
        /\ pending_dml_confirmation.action \in {"add", "delete"}
        /\ pending_dml_confirmation.sql # None
        /\ ~StartsWith(pending_dml_confirmation.sql, "Error generating DML:")

\* a SELECT the generator returned is held for confirmation
C4_Witness ==
    /\ pending_dml_confirmation.sql = "SELECT * FROM Artist"
    /\ lastEvent = "process_structured_dml"

GenerationCalls == {i \in 1..Len(calls) : calls[i].to = "dml_generation_chain"}

\* C5: when the DML generator returns a text starting with "Error generating
\* DML:", the run appends that text as the assistant's message and ends with
\* no current action and no pending confirmation.
C5_RefusalEndsCycle ==
    \A i \in GenerationCalls :
        (calls[i].got # None /\ StartsWith(calls[i].got, "Error generating DML:")) =>
            /\ messages[Len(messages)] = AssistantSays(calls[i].got)
            /\ current_action = None
            /\ pending_dml_confirmation = NoPending

\* C6: right after any of the three cancel buttons there is no current
\* action, no pending confirmation and no guidance.
C6_CancelClearsAll ==
    lastEvent \in {"cancel_initial", "cancel_operation", "cancel_confirmation"} =>
        /\ current_action = None
        /\ pending_dml_confirmation = NoPending
        /\ dml_guidance_message = NoGuidance

NotSelect(sql) == ~StartsWith(Upper(Strip(sql)), "SELECT")

\* C7 as claimed: for a text that does not start with SELECT,
\* run_select_query returns the skip message and does not call db.run.
C7_NonSelectSkipped ==
    (fnOut.fn = "run_select_query" /\ NotSelect(fnArg)) =>
        fnOut.ret = SkipMsg /\ fnOut.ran = None

\* C7 as amended: for a text that does not start with SELECT,
\* run_select_query never calls db.run; it returns the skip message when
\* there is a database connection and the "connection not available" error
\* when there is none.
C7_NonSelectNeverRun ==
    (fnOut.fn = "run_select_query" /\ NotSelect(fnArg)) =>
        /\ fnOut.ran = None
        /\ fnOut.ret = IF db THEN SkipMsg ELSE NoDbMsg

\* an INSERT was handed to run_select_query and skipped
C7_Witness ==
    /\ fnOut.fn = "run_select_query"
    /\ fnArg = "insert x"
    /\ db
    /\ fnOut.ret = SkipMsg

IsErrorString(text) == StartsWith(text, "Error:")

HoldsSentinel(sql) ==
    Contains(sql, "Error generating DML") \/ Contains(sql, "Command too vague")

\* C8 as claimed: run_simulated_dml_query returns the simulated-success text
\* for every text starting with INSERT, DELETE or UPDATE and an error string
\* for every other text.
C8_DmlPrefixSimulated ==
    fnOut.fn = "run_simulated_dml_query" =>
        IF StartsDml(fnArg) THEN fnOut.ret = SimSuccessMsg(fnOut.ran)
        ELSE IsErrorString(fnOut.ret)

\* C8 as amended: run_simulated_dml_query returns the simulated-success text
\* for every text that starts with INSERT, DELETE or UPDATE and holds neither
\* "Error generating DML" nor "Command too vague", and an error string for
\* every other text.
C8_CleanDmlSimulated ==
    fnOut.fn = "run_simulated_dml_query" =>
        IF StartsDml(fnArg) /\ ~HoldsSentinel(fnArg)
        THEN fnOut.ret = SimSuccessMsg(fnOut.ran)
        ELSE IsErrorString(fnOut.ret)

\* a lower-case insert was simulated successfully
C8_Witness ==
    /\ fnOut.fn = "run_simulated_dml_query"
    /\ fnArg = "insert x"
    /\ fnOut.ret = SimSuccessMsg("add")

SimulationCalls ==
    {i \in 1..Len(calls) : calls[i].to = "run_simulated_dml_query"}

\* C9: Proceed appends the result of the simulation of the pending statement;
\* that result is the simulated-success text exactly when the statement is
\* non-empty, holds no failure sentinel and starts with INSERT, DELETE or
\* UPDATE, and an error string otherwise.
C9_ConfirmSucceedsOnlyForCleanDml ==
    /\ lastEvent = "proceed" <=> SimulationCalls # {}
    /\ \A i \in SimulationCalls :
          /\ messages[Len(messages)] = AssistantSays(calls[i].got)
          /\ IF /\ Truthy(calls[i].arg)
                /\ ~HoldsSentinel(calls[i].arg)
                /\ StartsDml(calls[i].arg)
             THEN calls[i].got \in {SimSuccessMsg("add"), SimSuccessMsg("delete")}
             ELSE IsErrorString(calls[i].got)

\* an UPDATE holding "Command too vague" was confirmed and reported as an error
C9_Witness ==
    /\ lastEvent = "proceed"
    /\ \E i \in SimulationCalls :
          /\ calls[i].arg = "UPDATE Artist SET Name = 'Command too vague'"
          /\ IsErrorString(calls[i].got)

\* C10: while the details are awaited or the statement is generated or held
\* for this cycle with the Form method, the guidance names a target table
\* other than "Unknown" and at least one suggested field.
C10_FormOnlyWithKnownTable ==
    (/\ dml_input_method = "form"
     /\ current_action \in DetailsActions \/ IsProcessStructured(current_action)) =>
        /\ GuidanceTruthy(dml_guidance_message)
        /\ TargetTable(dml_guidance_message) # "Unknown"
        /\ dml_guidance_message.suggested_fields # <<>>

\* a statement generated from a filled form is held for confirmation
C10_Witness ==
    /\ dml_input_method = "form"
    /\ IsProcessStructured(current_action)
    /\ PendingSet
    /\ lastEvent = "process_structured_dml"

UnknownTableStored ==
    /\ GuidanceTruthy(dml_guidance_message)
    /\ TargetTable(dml_guidance_message) = "Unknown"

\* C11 as claimed: a stored guidance whose target table is "Unknown" has no
\* suggested fields.
C11_UnknownTableHasNoFields ==
    UnknownTableStored => dml_guidance_message.suggested_fields = <<>>

\* C11 as amended: a stored guidance whose target table is "Unknown" keeps
\* the suggested fields the model returned, empty or not, and while it is
\* stored the Fill Form button cannot be pressed.
C11_UnknownTableOffersNoForm == UnknownTableStored => ~ENABLED FillForm

\* the method selection is on the page for an "Unknown" table with a field
C11_Witness ==
    /\ dml_guidance_message = GuidanceObject("Unknown", <<"Name">>)
    /\ screen.stage = "method"
    /\ ENABLED DescribeInText

\* a step that appends exactly one message, an assistant's, with this text
AppendsOneReply(text) ==
    /\ Len(messages') = Len(messages) + 1
    /\ SubSeq(messages', 1, Len(messages)) = messages
    /\ messages'[Len(messages')].role = "assistant"
    /\ messages'[Len(messages')].ai_response = text
    /\ messages'[Len(messages')].error = None

SimulationResults(action) ==
    {SimSuccessMsg(action), SimIssueMsg(action), SimNotDmlMsg(action)}

\* C12: at the confirmation prompt, Proceed runs the simulation once, on the
\* pending statement and for the pending action, appends exactly one
\* assistant message carrying its result, clears the pending confirmation
\* and leaves no current action; Cancel appends exactly one "<Action>
\* operation cancelled." message, clears the pending confirmation and leaves
\* no current action, and runs no simulation.
C12_ConfirmAndCancelEndTheCycle ==
    [][/\ lastEvent' = "proceed" =>
            /\ PendingSet
            /\ Len(calls') = 1
            /\ calls'[1].to = "run_simulated_dml_query"
            /\ calls'[1].arg = pending_dml_confirmation.sql
            /\ calls'[1].got \in SimulationResults(pending_dml_confirmation.action)
            /\ AppendsOneReply(calls'[1].got)
            /\ pending_dml_confirmation' = NoPending
            /\ current_action' = None
       /\ lastEvent' = "cancel_confirmation" =>
            /\ PendingSet
            /\ calls' = <<>>
            /\ AppendsOneReply(IF pending_dml_confirmation.action = "add"
                               THEN "Add operation cancelled."
                               ELSE "Delete operation cancelled.")
            /\ pending_dml_confirmation' = NoPending
            /\ current_action' = None]_vars

\* a pending INSERT was confirmed and reported as simulated
C12_Witness ==
    /\ lastEvent = "proceed"
    /\ pending_dml_confirmation = NoPending
    /\ current_action = None
    /\ messages[Len(messages)] = AssistantSays(SimSuccessMsg("add"))

ModelChains ==
    {"initial_processing_chain", "select_answer_chain", "db_summary_chain",
     "dml_guidance_chain", "dml_generation_chain"}

\* the step made a model call that raised: the model failed, or its reply
\* could not be decoded
ModelCallFailed ==
    \E i \in 1..Len(calls') : calls'[i].to \in ModelChains /\ calls'[i].got = Raised

GenerationFailed ==
    \E i \in 1..Len(calls') :
        calls'[i].to = "dml_generation_chain" /\ calls'[i].got = Raised

\* a step that appends exactly one message, an assistant's error
AppendsOneError ==
    /\ Len(messages') = Len(messages) + 1
    /\ SubSeq(messages', 1, Len(messages)) = messages
    /\ messages'[Len(messages')].role = "assistant"
    /\ messages'[Len(messages')].error # None
    /\ messages'[Len(messages')].ai_response = None

\* C13: a processing step in which a model call fails appends exactly one
\* assistant error message, ends with no current action and stores no
\* pending confirmation; when the failed call is the DML generation, no
\* pending confirmation is left.
C13_FailureReturnsToIdle ==
    [][ModelCallFailed =>
           /\ AppendsOneError
           /\ current_action' = None
           /\ UNCHANGED pending_dml_confirmation
           /\ GenerationFailed => pending_dml_confirmation' = NoPending]_vars

\* a rejected submission: the run makes no call, queues no run and leaves
\* the session as it was
NothingHappens ==
    /\ UNCHANGED sessionVars
    /\ calls' = <<>>
    /\ queued' = "none"

\* C14: pressing Get Guidance with an empty (or blank) description leaves the
\* controller at the initial input, makes no model call, appends nothing and
\* leaves guidance, input method and pending confirmation unchanged.
C14_EmptyDescriptionRejected ==
    [][(/\ lastEvent' \in {"get_guidance", "get_guidance_rejected"}
        /\ Strip(dml_initial_description') = "") =>
           /\ current_action \in InitialInputActions
           /\ NothingHappens]_vars

\* Get Guidance was pressed on an empty description
C14_Witness ==
    /\ lastEvent = "get_guidance_rejected"
    /\ dml_initial_description = ""
    /\ current_action \in InitialInputActions

FormSubmitted == lastEvent' \in {"submit_form", "submit_form_rejected"}

TextSubmitted == lastEvent' \in {"generate_from_text", "generate_from_text_rejected"}

Advances == IsProcessStructured(current_action')

\* C15: a form submission goes on to DML generation only if some suggested
\* field holds a non-empty value, a text submission only if the details are
\* not blank; a submission that does not go on makes no call and leaves the
\* session unchanged.
C15_DetailsValidated ==
    [][/\ (FormSubmitted /\ Advances) =>
              \E f \in FieldsOf(dml_guidance_message) :
                  f \in DOMAIN dml_form_inputs' /\ dml_form_inputs'[f] # ""
       /\ (TextSubmitted /\ Advances) => Strip(dml_text_details') # ""
       /\ ((FormSubmitted \/ TextSubmitted) /\ ~Advances) =>
              /\ current_action \in DetailsActions
              /\ NothingHappens]_vars

\* a form was submitted with every field empty
C15_Witness ==
    /\ lastEvent = "submit_form_rejected"
    /\ dml_input_method = "form"
    /\ current_action \in DetailsActions
    /\ \A f \in FieldsOf(dml_guidance_message) : dml_form_inputs[f] = ""

\* C16: Go Back from the details stage returns to the method selection of
\* the same verb with the guidance unchanged, the form values and the text
\* details cleared, nothing appended to the log and no call made.
C16_GoBackKeepsGuidance ==
    [][lastEvent' = "go_back" =>
           /\ current_action \in DetailsActions
           /\ current_action' =
                  IF current_action = "awaiting_structured_dml_details_add"
                  THEN "awaiting_dml_input_method_add"
                  ELSE "awaiting_dml_input_method_delete"
           /\ UNCHANGED dml_guidance_message
           /\ GuidanceTruthy(dml_guidance_message)
           /\ dml_form_inputs' = EmptyDict
           /\ dml_text_details' = ""
           /\ UNCHANGED messages
           /\ calls' = <<>>]_vars

\* the user went back from the text details to the method selection
C16_Witness ==
    /\ lastEvent = "go_back"
    /\ current_action \in InputMethodActions
    /\ dml_input_method = "text"
    /\ GuidanceTruthy(dml_guidance_message)
    /\ dml_text_details = ""

\* the classifier answered this step with this response_type
RepliedTag(tag) ==
    \E k \in 1..Len(calls') :
        calls'[k].to = "initial_processing_chain" /\ calls'[k].got = tag

CallsTo(names) == {i \in 1..Len(calls') : calls'[i].to \in names}

\* the DML session is as it was
DmlSessionUntouched ==
    UNCHANGED <<dml_initial_description, dml_form_inputs, dml_text_details,
                dml_guidance_message, dml_input_method, pending_dml_confirmation>>

\* C17: when the classifier returns SELECT_QUERY with a generated_sql that
\* holds "Cannot answer", the chat turn calls neither the query executor, nor
\* db.run, nor the answer chain; it appends one assistant message whose
\* response is the generated text and ends with no current action.
C17_UnanswerableNotExecuted ==
    [][(/\ RepliedTag("SELECT_QUERY")
        /\ messages'[Len(messages')].generated_sql_display # None
        /\ Contains(messages'[Len(messages')].generated_sql_display, "Cannot answer")) =>
           /\ CallsTo({"run_select_query", "db.run", "select_answer_chain"}) = {}
           /\ UNCHANGED dbRuns
           /\ AppendsOneReply(messages'[Len(messages')].generated_sql_display)
           /\ current_action' = None
           /\ DmlSessionUntouched]_vars

\* the text "Cannot answer ..." was surfaced as the assistant's response
C17_Witness ==
    /\ lastEvent = "process_chat_input"
    /\ messages[Len(messages)].ai_response = "Cannot answer based on the schema."
    /\ messages[Len(messages)].generated_sql_display = "Cannot answer based on the schema."
    /\ current_action = None
    /\ dbRuns = {}

PlainTags == {"CLARIFICATION_NEEDED_FOR_SELECT", "DML_INTENT_DETECTED", "GENERAL_RESPONSE"}

KnownTags == PlainTags \cup {"SELECT_QUERY", "DATABASE_OVERVIEW_REQUEST"}

\* the classifier's call is the last call of the step
NoCallAfterClassifier == calls'[Len(calls')].to = "initial_processing_chain"

\* C18: for a reply tagged CLARIFICATION_NEEDED_FOR_SELECT,
\* DML_INTENT_DETECTED or GENERAL_RESPONSE the chat turn appends exactly one
\* assistant message carrying the reply's ai_response, makes no call after
\* the classifier's, leaves the DML session as it was and ends with no
\* current action; for a tag outside the five known ones, or none, it
\* appends exactly one "Unexpected AI response type." error instead.
C18_PlainRepliesSurfaced ==
    [][\A k \in CallsTo({"initial_processing_chain"}) :
          LET tag == calls'[k].got
          IN  /\ tag \in PlainTags =>
                    /\ \E r \in IntentReplies :
                          r.response_type = tag /\ AppendsOneReply(r.ai_response)
                    /\ NoCallAfterClassifier
                    /\ UNCHANGED dbRuns
                    /\ DmlSessionUntouched
                    /\ current_action' = None
              /\ (tag \notin KnownTags /\ tag # Raised) =>
                    /\ AppendsOneError
                    /\ messages'[Len(messages')].error = "Unexpected AI response type."
                    /\ NoCallAfterClassifier
                    /\ UNCHANGED dbRuns
                    /\ DmlSessionUntouched
                    /\ current_action' = None]_vars

\* the reply to a detected DML intent was surfaced
C18_Witness ==
    /\ lastEvent = "process_chat_input"
    /\ messages[Len(messages)] = AssistantSays("Please use the dedicated buttons.")
    /\ current_action = None

\* C19: when db.run raises, run_select_query returns a text that holds the
\* exception's message and the attempted query; the answer chain is then
\* called with that text, the chat turn appends exactly one assistant message
\* and ends with no current action.
C19_DbErrorReturnedAsText ==
    [][\A j \in CallsTo({"db.run"}) :
          StartsWith(calls'[j].got, Raised) =>
              /\ \E i \in CallsTo({"run_select_query"}) :
                    /\ calls'[i].got # Raised
                    /\ Contains(calls'[i].got, DropPrefix(calls'[j].got, Len(Raised)))
                    /\ Contains(calls'[i].got, calls'[j].arg)
                    /\ \E a \in CallsTo({"select_answer_chain"}) :
                          calls'[a].arg = calls'[i].got
              /\ Len(messages') = Len(messages) + 1
              /\ SubSeq(messages', 1, Len(messages)) = messages
              /\ messages'[Len(messages')].role = "assistant"
              /\ current_action' = None]_vars

\* db.run raised and the turn still answered
C19_Witness ==
    /\ lastEvent = "process_chat_input"
    /\ \E j \in 1..Len(calls) :
          calls[j].to = "db.run" /\ calls[j].got = Raised \o "Unknown column"
    /\ messages[Len(messages)].ai_response = "There are 2 artists."
    /\ current_action = None

\* C20: every step leaves the log as it was or appends to it: the log before
\* the step is a prefix of the log after it.
C20_LogAppendOnly ==
    [][/\ Len(messages') >= Len(messages)
       /\ SubSeq(messages', 1, Len(messages)) = messages]_vars

\* the log holds the greeting, a question and its answer
C20_Witness ==
    /\ Len(messages) = 3
    /\ messages[1] = Greeting
    /\ messages[2].role = "user"
    /\ messages[3].role = "assistant"

\* the chains whose prompt takes the schema
SchemaChains ==
    {"initial_processing_chain", "db_summary_chain", "dml_guidance_chain",
     "dml_generation_chain"}

SchemaReads == {i \in 1..Len(calls) : calls[i].to = "db.get_table_info"}

GuidanceCalls == CallsTo({"dml_guidance_chain"})

\* C22: the guidance chain is called once for an accepted description, by
\* the run that processes it, which does not leave the description to be
\* processed again; the stored guidance changes only when that run stores it
\* (over no guidance), when a quick action starts a new cycle, or when Cancel
\* Operation at the method selection ends the cycle.
C22_GuidanceWrittenOnce ==
    [][/\ GuidanceCalls # {} =>
              /\ Cardinality(GuidanceCalls) = 1
              /\ IsProcessInitial(current_action)
              /\ ~IsProcessInitial(current_action')
       /\ dml_guidance_message' # dml_guidance_message =>
              \/ /\ GuidanceCalls # {}
                 /\ dml_guidance_message = NoGuidance
              \/ /\ lastEvent' \in {"add_data_button", "delete_data_button"}
                 /\ dml_guidance_message' = NoGuidance
              \/ /\ lastEvent' = "cancel_operation"
                 /\ dml_guidance_message' = NoGuidance
                 /\ current_action' = None]_vars

\* the guidance stored for the cycle is still there when its statement is held
C22_Witness ==
    /\ lastEvent = "process_structured_dml"
    /\ PendingSet
    /\ dml_input_method = "text"
    /\ dml_guidance_message = GuidanceObject("Artist", <<"Name", "ArtistId">>)

Parsed == fnOut.fn = "SimpleStrParser.parse"

\* the output, white space around it aside, is this opening fence, a
\* content and the closing fence
IsFenced(text, opening) ==
    /\ Len(Strip(text)) >= Len(opening) + Len(Fence)
    /\ StartsWith(Strip(text), opening)
    /\ EndsWith(Strip(text), Fence)

\* the content between the opening and the closing fence
FencedContent(text, opening) ==
    SubSeq(Strip(text), Len(opening) + 1, Len(Strip(text)) - Len(Fence))

\* C23: for a model output wrapped in a fence (an opening fence tagged sql
\* or json, a closing fence, white space around them or not),
\* SimpleStrParser.parse returns the content between the fences with the
\* white space around it removed, which is also what it returns for that
\* content without the fences.
C23_FencedContentReturned ==
    \A o \in Openings :
        (Parsed /\ IsFenced(fnArg, o)) =>
            /\ fnOut.ret = Strip(FencedContent(fnArg, o))
            /\ fnOut.ret = SimpleStrParser_parse(FencedContent(fnArg, o))

\* an Add or Delete flow is under way, from the initial input to the
\* confirmation prompt
InDmlFlow ==
    \/ current_action \in InitialInputActions \cup InputMethodActions \cup DetailsActions
    \/ IsProcessInitial(current_action)
    \/ IsProcessStructured(current_action)
    \/ PendingSet

\* C24: while an Add or Delete flow is under way, a confirmation prompt
\* included, no chat message can be submitted.
C24_NoChatDuringDml ==
    InDmlFlow => ~ENABLED main_chat_input

\* the generated SQL is one the chat turn forwards to the query executor
Answerable(generated_sql) ==
    Truthy(generated_sql) /\ ~Contains(generated_sql, "Cannot answer")

\* C25: in a chat turn whose classifier reply is SELECT_QUERY, a generated
\* SQL that is non-empty and holds no "Cannot answer" is passed to the query
\* executor exactly once and then, exactly once, the answer model is called
\* with the executor's output; when the answer model returns, the turn
\* appends one assistant message carrying that SQL, the executor's output and
\* the composed answer.  Any other generated SQL reaches neither.
C25_SelectExecutedThenAnswered ==
    [][RepliedTag("SELECT_QUERY") =>
          LET execs == CallsTo({"run_select_query"})
              answers == CallsTo({"select_answer_chain"})
              last == messages'[Len(messages')]
          IN  \/ /\ execs = {} /\ answers = {}
                 /\ ~Answerable(last.generated_sql_display)
              \/ \E e \in execs : \E a \in answers :
                    /\ execs = {e} /\ answers = {a}
                    /\ e < a
                    /\ Answerable(calls'[e].arg)
                    /\ calls'[a].arg = calls'[e].got
                    /\ \/ calls'[a].got = Raised /\ AppendsOneError
                       \/ /\ calls'[a].got # Raised
                          /\ AppendsOneReply(calls'[a].got)
                          /\ last.generated_sql_display = calls'[e].arg
                          /\ last.sql_query_result_display = calls'[e].got]_vars

\* a SELECT was executed and answered
C25_Witness ==
    /\ lastEvent = "process_chat_input"
    /\ \E e, a \in 1..Len(calls) :
          /\ e < a
          /\ calls[e] = Call("run_select_query", " select Name from Artist ",
                             "[(1, 'AC/DC'), (2, 'Accept')]")
          /\ calls[a] = Call("select_answer_chain", "[(1, 'AC/DC'), (2, 'Accept')]",
                             "There are 2 artists.")
    /\ messages[Len(messages)] =
           Message("assistant", None, "There are 2 artists.",
                   " select Name from Artist ", "[(1, 'AC/DC'), (2, 'Accept')]", None)

\* the current action belongs to an Add or Delete flow
FlowAction(action) ==
    \/ action \in InitialInputActions \cup InputMethodActions \cup DetailsActions
    \/ IsProcessInitial(action)
    \/ IsProcessStructured(action)

QuickActions == {"add_data_button", "delete_data_button"}

\* C26: a quick action starts a flow of its own verb, every later step of
\* the flow keeps that verb, and whenever a step of the flow ends with a
\* confirmation prompt on offer, the prompt's verb is the flow's, hence the
\* verb of the most recent quick action.
C26_PromptVerbIsFlowVerb ==
    [][/\ lastEvent' = "add_data_button" => VerbOf(current_action') = "add"
       /\ lastEvent' = "delete_data_button" => VerbOf(current_action') = "delete"
       /\ (FlowAction(current_action) /\ lastEvent' \notin QuickActions) =>
              /\ FlowAction(current_action') =>
                     VerbOf(current_action') = VerbOf(current_action)
              /\ StageOf(current_action', pending_dml_confirmation') = "confirm" =>
                     pending_dml_confirmation'.action = VerbOf(current_action)]_vars

\* C27: whenever the controller awaits the details or generates the DML,
\* the guidance is present and the input method is "form" or "text", so the
\* "DML guidance is missing", "Input method not selected" and "DML Input
\* method not determined" branches are never taken.
C27_DetailsHaveGuidanceAndMethod ==
    (current_action \in DetailsActions \/ IsProcessStructured(current_action)) =>
        /\ GuidanceTruthy(dml_guidance_message)
        /\ dml_input_method \in {"form", "text"}

\* a generation is about to run for a submitted form
C27_Witness ==
    /\ IsProcessStructured(current_action)
    /\ lastEvent = "submit_form"
    /\ dml_input_method = "form"
    /\ GuidanceTruthy(dml_guidance_message)

\* one field='value' pair of the serialised form
Pair(k, v) == k \o "='" \o EscapeQuotes(v) \o "'"

\* the details the generator was given are those of the form as it stands:
\* a pair for every filled field, none for an empty one, and no key that the
\* current guidance did not suggest
SerialisesForm(details) ==
    /\ DOMAIN dml_form_inputs \subseteq FieldsOf(dml_guidance_message)
    /\ \E k \in DOMAIN dml_form_inputs : dml_form_inputs[k] # ""
    /\ \A k \in DOMAIN dml_form_inputs :
          IF dml_form_inputs[k] # ""
          THEN Contains(details, Pair(k, dml_form_inputs[k]))
          ELSE ~Contains(details, k \o "=")

\* C28: every call of the DML generator is given non-empty details: for a
\* form, the pairs of exactly its filled fields, at least one; for a text,
\* the stored text, which is not blank.  The details stage always opens on an
\* empty form and an empty text, so nothing the generator is given was
\* entered in an earlier cycle or before a Go Back.
C28_GeneratorGetsFreshDetails ==
    [][/\ \A k \in CallsTo({"dml_generation_chain"}) :
             LET details == calls'[k].arg
             IN  /\ details # ""
                 /\ dml_input_method = "form" => SerialisesForm(details)
                 /\ dml_input_method = "text" =>
                        details = dml_text_details /\ Strip(details) # ""
                 /\ dml_input_method \in {"form", "text"}
       /\ lastEvent' \in {"choose_form", "choose_text"} =>
             /\ dml_text_details' = ""
             /\ \A k \in DOMAIN dml_form_inputs' : dml_form_inputs'[k] = ""]_vars

\* the generator was given the one filled field of a two-field form
C28_Witness ==
    /\ lastEvent = "process_structured_dml"
    /\ dml_input_method = "form"
    /\ \E k \in 1..Len(calls) :
          calls[k].to = "dml_generation_chain" /\ calls[k].arg = "Name='Test'"
    /\ DictGet(dml_form_inputs, "ArtistId", None) = ""

====
